---- MODULE Spec2Model ----
(***************************************************************************)
(* One call session of the voice caller: the Telnyx endpoint loop, the     *)
(* background connect/greeting task, the Deepgram STT and TTS handlers,    *)
(* the Bedrock LLM generator and the response tasks, as one state machine. *)
(* Every action is the code that runs between two suspension points of     *)
(* the asyncio event loop.                                                 *)
(***************************************************************************)
EXTENDS Integers, Sequences, FiniteSets, TLC

\* ------------------------------------------------------------------ bounds
MaxRequests == 2        \* user turns accepted in one behaviour of SpecTurns
MaxCallRequests == 1    \* user turns accepted in one behaviour of Spec
FramesPerText == 11     \* audio frames the synthesizer returns for one text message
MaxParts == 1           \* final transcript segments buffered at once
MaxYields == 1          \* fragments the LLM yields inside its stream loop, per request
MaxInbound == 2         \* inbound media frames forwarded to STT in one behaviour
MaxCallInbound == 1     \* inbound media frames forwarded to STT in one behaviour of Spec
MaxBargeIn == 1         \* barge-in handlers suspended in tts.cancel() at once
MaxFresh == 3           \* frames arriving at a prefilled queue or buffer in one behaviour of SpecQueues
Slack == 2              \* free slots of the fullest-but-not-full queue or buffer SpecQueues starts with
FrameTags == 2          \* distinct contents of the frames arriving in SpecQueues
MaxSegments == 3         \* final transcript segments buffered at once in SpecTranscript
MaxTokens == 3           \* fragments the iterator of stream_text yields in SpecStream
MaxStarts == 2           \* start events one connection receives in SpecStarts
MaxQueued == 11         \* frames sent or queued in a turn up to which a further audio message of the same text arrives

\* ------------------------------------------------------- program constants
BargeInThreshold == 10  \* on_speech_started: tts_audio_sent > 10
DrainBatch == 5         \* drain_tts_queue: sent < 5
QueueMaxLen == 1000     \* CallSession.tts_audio_queue maxlen
ArrivalPolls == 50      \* _send_greeting: wait_count < 50
ArrivalFrames == 10     \* _send_greeting: len(tts_audio_queue) > 10
MinPlaybackPolls == 50  \* _send_greeting: playback_chunks < 50
MaxPlaybackPolls == 500 \* _send_greeting: playback_chunks > 500
BufferMaxLen == 500     \* CallSession.audio_buffer maxlen

VARIABLES
    \* CallSession
    is_active, is_bot_speaking, is_ready, barge_in_enabled, stt_enabled,
    tts_audio_sent, tts_audio_queue, pending_response_task, in_sessions,
    audio_buffer,
    \* STTHandler (stt_audio: the frames sent to STT, in the order sent;
    \* full_transcript: the text it last passed to its speech-ended or
    \* utterance-end callback)
    stt_connected, transcript_parts, current_transcript, full_transcript, stt_audio,
    \* TTSHandler and the remote synthesizer
    tts_connected, cancel_event, tts_remote,
    \* LLMHandler (greeting_text: _greeting_text holds the greeting)
    messages, greeting_text,
    \* TTSHandler.stream_text: the fragments its iterator has still to yield and
    \* its buffer, as text
    text_iterator, buffer,
    \* coroutines: response tasks, suspended barge-in handlers, the connect task
    \* (with the poll count of the greeting loop it is in), the endpoint loop
    tasks, nreq, bargein, conn_pc, greet_polls, stt_res, tts_res, ep_pc,
    \* the sessions an earlier start event of this connection created, each as
    \* the later start event left it
    replaced,
    \* the operation the last step performed
    last

session_vars == <<is_active, is_bot_speaking, is_ready, barge_in_enabled, stt_enabled,
                  tts_audio_sent, tts_audio_queue, pending_response_task, in_sessions,
                  audio_buffer>>
stt_vars == <<stt_connected, transcript_parts, current_transcript, full_transcript,
              stt_audio>>
tts_vars == <<tts_connected, cancel_event, tts_remote>>
co_vars == <<tasks, nreq, bargein, conn_pc, greet_polls, stt_res, tts_res, ep_pc, replaced>>
stream_vars == <<text_iterator, buffer>>
\* the history, the greeting held by the LLM handler, the text being streamed
text_vars == <<messages, greeting_text, stream_vars>>
vars == <<session_vars, stt_vars, tts_vars, messages, greeting_text, stream_vars, co_vars,
          last>>

\* ------------------------------------------------------------------- text
\* Transcript text is a sequence of characters over a two-letter alphabet.
Space == " "
Segments == {<<"a">>, <<Space>>}
\* the transcripts of SpecTranscript: words, a blank, a word with a trailing blank
Utterances == Segments \cup {<<"b">>, <<"a", Space>>}

RECURSIVE LStrip(_)
LStrip(s) == IF s # <<>> /\ Head(s) = Space THEN LStrip(Tail(s)) ELSE s

RECURSIVE RStrip(_)
RStrip(s) == IF s # <<>> /\ s[Len(s)] = Space THEN RStrip(SubSeq(s, 1, Len(s) - 1)) ELSE s

StripNothing(s) == s

\* str.strip
Strip(s) == LStrip(RStrip(s))

RECURSIVE Join(_)
Join(parts) == IF parts = <<>> THEN <<>>
               ELSE IF Len(parts) = 1 THEN parts[1]
               ELSE parts[1] \o <<Space>> \o Join(Tail(parts))

ResetTranscriptKeeps(parts) == parts

\* STTHandler.reset_transcript: transcript_parts.clear()
ResetTranscript(parts) == <<>>

\* STTHandler.get_full_transcript
GetFullTranscript(parts) == Strip(Join(parts))

\* ------------------------------------------------------------- collections
DequeAppendDropsNewest(q, x, n) == IF Len(q) >= n THEN q ELSE Append(q, x)

\* deque(maxlen=n).append
DequeAppend(q, x, n) == IF Len(q) >= n THEN Append(Tail(q), x) ELSE Append(q, x)

\* ------------------------------------------------------------------ tasks
\* ctx: the system prompt of the task's LLM request carries the greeting context
NoTask == [pc |-> "none", gen |-> "idle", cancel_req |-> "no", buf |-> FALSE, ny |-> 0,
           ctx |-> FALSE]
Requests == 1..MaxRequests
Kinds == {"flush", "space", "plain"}
SuspendedPcs == {"next", "send", "tail_send", "tail_flush", "flush"}
\* positions of generate_response_stream after its add_assistant_message
Appended == {"y_fb0", "y_fb", "closing", "done", "dead"}
\* the generator is never resumed again: "killed" when that happens before it
\* appended its turn, "dead" when after
Abandoned(gen) ==
    IF gen \in {"idle", "done"} THEN gen
    ELSE IF gen \in Appended THEN "dead" ELSE "killed"

TaskDone(r) == tasks[r].pc \in {"done", "cancelled"}

UserMsg(r) == [role |-> "user", req |-> r, kind |-> "user"]
FullMsg(r) == [role |-> "assistant", req |-> r, kind |-> "full"]
ApologyMsg(r) == [role |-> "assistant", req |-> r, kind |-> "apology"]

TextItem(tag) == [k |-> "text", of |-> tag]
FlushItem == [k |-> "flush", of |-> 0]
ClearItem == [k |-> "clear", of |-> 0]

\* the first start event of the connection was handled: the session
\* create_session returns, its connect task started
Init ==
    /\ is_active = TRUE /\ is_bot_speaking = FALSE /\ is_ready = FALSE
    /\ barge_in_enabled = FALSE /\ stt_enabled = FALSE
    /\ tts_audio_sent = 0 /\ tts_audio_queue = <<>> /\ pending_response_task = 0
    /\ in_sessions = TRUE /\ audio_buffer = <<>>
    /\ stt_connected = FALSE /\ transcript_parts = <<>> /\ current_transcript = <<>>
    /\ full_transcript = <<>>
    /\ stt_audio = <<>>
    /\ tts_connected = FALSE /\ cancel_event = FALSE /\ tts_remote = <<>>
    /\ messages = <<>> /\ greeting_text = TRUE
    /\ text_iterator = <<>> /\ buffer = <<>>
    /\ tasks = [r \in Requests |-> NoTask] /\ nreq = 0 /\ bargein = <<>>
    /\ conn_pc = "connecting" /\ stt_res = "pending" /\ tts_res = "pending"
    /\ greet_polls = 0
    /\ ep_pc = "open" /\ replaced = <<>>
    /\ last = [op |-> "start", arg |-> 0]

\* last names the handler the step ran ("step" for those no property refers
\* to) with the request or task it was about; for utterance_end, 1 when the
\* message before it was the speech_final Results; for audio, the request
\* whose text was synthesized (0 for the greeting)
Did(op, arg) == last' = [op |-> op, arg |-> arg]

\* ------------------------------------------- connect task and the greeting
\* STTHandler.connect: the connection opens (or fails) while create_session's
\* background task waits in asyncio.gather
STTConnect(ok) ==
    /\ conn_pc = "connecting" /\ stt_res = "pending"
    /\ stt_res' = IF ok THEN "ok" ELSE "fail"
    /\ stt_connected' = IF ok THEN TRUE ELSE stt_connected
    /\ Did("step", 0)
    /\ UNCHANGED <<session_vars, transcript_parts, current_transcript, full_transcript,
                   stt_audio, tts_vars, text_vars, tasks, nreq, bargein,
                   conn_pc, greet_polls, tts_res, ep_pc, replaced>>

\* TTSHandler.connect
TTSConnect(ok) ==
    /\ conn_pc = "connecting" /\ tts_res = "pending"
    /\ tts_res' = IF ok THEN "ok" ELSE "fail"
    /\ tts_connected' = IF ok THEN TRUE ELSE tts_connected
    /\ Did("step", 0)
    /\ UNCHANGED <<session_vars, stt_vars, cancel_event, tts_remote,
                   text_vars, tasks, nreq, bargein, conn_pc, greet_polls,
                   stt_res, ep_pc, replaced>>

\* TTSHandler.send_text(text) followed by TTSHandler.flush(), as _send_greeting
\* issues them: the default greeting ends with a flush character
GreetingSent(remote) ==
    IF tts_connected
    THEN remote \o <<TextItem(0), FlushItem, FlushItem>>
    ELSE remote

EitherConnected == stt_res = "ok" \/ tts_res = "ok"

\* _connect_deepgram: stt_ok and tts_ok
BothConnected == stt_res = "ok" /\ tts_res = "ok"

GreetingEntryGateOn == TRUE

\* _send_greeting on entry: session.stt_enabled = False
GreetingEntryGate == FALSE

\* _connect_deepgram after the gather returns, up to the first sleep of
\* _send_greeting
ConnectDone ==
    /\ conn_pc = "connecting" /\ stt_res # "pending" /\ tts_res # "pending"
    /\ IF BothConnected
       THEN /\ is_ready' = TRUE
            /\ audio_buffer' = <<>>
            /\ is_bot_speaking' = TRUE
            /\ stt_enabled' = GreetingEntryGate
            /\ barge_in_enabled' = FALSE
            /\ tts_remote' = GreetingSent(tts_remote)
            /\ conn_pc' = "greet_wait"
            /\ Did("step", 0)
       ELSE /\ conn_pc' = "failed"
            /\ Did("step", 0)
            /\ UNCHANGED <<is_ready, audio_buffer, is_bot_speaking, stt_enabled,
                           barge_in_enabled, tts_remote>>
    /\ UNCHANGED <<is_active, tts_audio_sent, tts_audio_queue, pending_response_task,
                   in_sessions, stt_vars, tts_connected, cancel_event,
                   text_vars, tasks, nreq, bargein, stt_res, tts_res,
                   greet_polls, ep_pc, replaced>>

\* _send_greeting: the arrival wait ends (more than 10 frames queued, or its
\* 50 polls have elapsed)
GreetArrival ==
    /\ conn_pc = "greet_wait"
    /\ conn_pc' = "greet_drain"
    /\ Did("step", 0)
    /\ UNCHANGED <<session_vars, stt_vars, tts_vars, text_vars, tasks, nreq, bargein,
                   stt_res, tts_res, greet_polls, ep_pc, replaced>>

\* _send_greeting: the drain wait ends (queue empty after 50 polls, or more
\* than 500 polls have elapsed)
GreetDrained ==
    /\ conn_pc = "greet_drain"
    /\ conn_pc' = "greet_settle"
    /\ Did("step", 0)
    /\ UNCHANGED <<session_vars, stt_vars, tts_vars, text_vars, tasks, nreq, bargein,
                   stt_res, tts_res, greet_polls, ep_pc, replaced>>

\* _send_greeting: after the 0.5 s settle, the gate opens (and the finally block)
GreetDone ==
    /\ conn_pc = "greet_settle"
    /\ conn_pc' = "done"
    /\ stt_enabled' = TRUE
    /\ barge_in_enabled' = TRUE
    /\ is_bot_speaking' = FALSE
    /\ Did("step", 0)
    /\ UNCHANGED <<is_active, is_ready, tts_audio_sent, tts_audio_queue,
                   pending_response_task, in_sessions, audio_buffer, stt_vars, tts_vars,
                   text_vars, tasks, nreq, bargein, stt_res, tts_res,
                   greet_polls, ep_pc, replaced>>

\* _send_greeting: the sleep of the arrival loop returns; the loop goes on
\* while fewer than 50 sleeps were taken and no more than 10 frames are
\* queued, and is followed by the first sleep of the drain loop
GreetWaitPoll ==
    /\ conn_pc = "greet_wait"
    /\ IF greet_polls + 1 < ArrivalPolls /\ Len(tts_audio_queue) <= ArrivalFrames
       THEN greet_polls' = greet_polls + 1 /\ UNCHANGED conn_pc
       ELSE greet_polls' = 0 /\ conn_pc' = "greet_drain"
    /\ Did("step", 0)
    /\ UNCHANGED <<session_vars, stt_vars, tts_vars, text_vars, tasks, nreq, bargein,
                   stt_res, tts_res, ep_pc, replaced>>

DrainWaitOverNoCap(polls, q) == q = <<>> /\ polls >= MinPlaybackPolls

\* _send_greeting: the drain loop ends after the given number of sleeps
DrainWaitOver(polls, q) ==
    polls > MaxPlaybackPolls \/ (q = <<>> /\ polls >= MinPlaybackPolls)

\* _send_greeting: the sleep of the drain loop returns; the loop is followed
\* by the 0.5 s settle sleep
GreetDrainPoll ==
    /\ conn_pc = "greet_drain"
    /\ IF DrainWaitOver(greet_polls + 1, tts_audio_queue)
       THEN greet_polls' = 0 /\ conn_pc' = "greet_settle"
       ELSE greet_polls' = greet_polls + 1 /\ UNCHANGED conn_pc
    /\ Did("step", 0)
    /\ UNCHANGED <<session_vars, stt_vars, tts_vars, text_vars, tasks, nreq, bargein,
                   stt_res, tts_res, ep_pc, replaced>>

InGreeting == conn_pc \in {"greet_wait", "greet_drain", "greet_settle"}

\* --------------------------------------------------------- endpoint loop
Min(a, b) == IF a < b THEN a ELSE b

DrainCountAll(q) == Len(q)

\* drain_tts_queue: the number of frames one call pops and sends
DrainCount(q) == Min(Len(q), DrainBatch)

PopRight(q, n) == SubSeq(q, 1, Len(q) - n)

\* n times deque.popleft()
PopLeft(q, n) == SubSeq(q, n + 1, Len(q))

\* one call of drain_tts_queue, every send succeeding
Drain ==
    /\ tts_audio_queue' = PopLeft(tts_audio_queue, DrainCount(tts_audio_queue))
    /\ tts_audio_sent' = tts_audio_sent + DrainCount(tts_audio_queue)

\* the 50 ms receive timeout: the loop goes round and drains
EpTimeout ==
    /\ ep_pc = "open" /\ tts_audio_queue # <<>>
    /\ Drain
    /\ Did("step", 0)
    /\ UNCHANGED <<is_active, is_bot_speaking, is_ready, barge_in_enabled, stt_enabled,
                   pending_response_task, in_sessions, audio_buffer, stt_vars, tts_vars,
                   text_vars, co_vars>>

SendAudioFirst(sent, frame) == <<frame>> \o sent

\* STTHandler.send_audio: connection.send_media(audio_data); STT has then
\* received the frame after those sent before
SendAudio(sent, frame) == Append(sent, frame)

AfterFailedSendKeeps(q, k) == PopLeft(q, k)

\* drain_tts_queue when the send after k successful ones raises: the frame
\* was taken by popleft before the send and is not put back
AfterFailedSend(q, k) == PopLeft(q, k + 1)

\* the receive timeout followed by a drain_tts_queue call in which k sends
\* succeed and the next one raises: that frame was popped, is not counted,
\* and the drain loop breaks
EpTimeoutSendFails(k) ==
    /\ ep_pc = "open"
    /\ k < DrainCount(tts_audio_queue)
    /\ tts_audio_queue' = AfterFailedSend(tts_audio_queue, k)
    /\ tts_audio_sent' = tts_audio_sent + k
    /\ Did("drain_failed", k)
    /\ UNCHANGED <<is_active, is_bot_speaking, is_ready, barge_in_enabled, stt_enabled,
                   pending_response_task, in_sessions, audio_buffer, stt_vars, tts_vars,
                   text_vars, co_vars>>

HandleMediaNoGate(frame) ==
    /\ Len(stt_audio) < MaxInbound
    /\ IF is_ready /\ stt_connected
       THEN /\ stt_audio' = SendAudio(stt_audio, frame)
            /\ Did("stt_forward", 0)
            /\ UNCHANGED audio_buffer
       ELSE /\ Did("media_discard", 0)
            /\ UNCHANGED <<stt_audio, audio_buffer>>

\* frames of a queue that arrived during the behaviour: the frames a
\* behaviour starts with are tagged 0, those arriving later are not
Fresh(q) == Cardinality({i \in 1..Len(q) : q[i] # 0})

\* SessionManager.handle_media for an inbound-track frame
HandleMedia(frame) ==
    IF is_ready /\ stt_connected /\ stt_enabled
    THEN /\ Len(stt_audio) < MaxInbound
         /\ stt_audio' = SendAudio(stt_audio, frame)
         /\ Did("stt_forward", 0)
         /\ UNCHANGED audio_buffer
    ELSE IF ~stt_enabled
    THEN /\ Did("media_discard", 0)
         /\ UNCHANGED <<stt_audio, audio_buffer>>
    ELSE /\ Fresh(audio_buffer) < MaxFresh
         /\ audio_buffer' = DequeAppend(audio_buffer, frame, BufferMaxLen)
         /\ Did("media_buffer", 0)
         /\ UNCHANGED stt_audio

\* the endpoint receives a media event on the inbound track, then the loop
\* goes round and drains
EpMedia(frame) ==
    /\ ep_pc = "open"
    /\ HandleMedia(frame)
    /\ Drain
    /\ UNCHANGED <<is_active, is_bot_speaking, is_ready, barge_in_enabled, stt_enabled,
                   pending_response_task, in_sessions, stt_connected, transcript_parts,
                   current_transcript, full_transcript, tts_vars, text_vars, co_vars>>

\* Task.cancel() on the pending response task, when there is one and it is not done
CancelPending(ts, by) ==
    IF pending_response_task # 0 /\ ~TaskDone(pending_response_task)
    THEN [ts EXCEPT ![pending_response_task].cancel_req = IF @ = "no" THEN by ELSE @]
    ELSE ts

SessionAlwaysKnown == TRUE

\* close_session: self.sessions.get(stream_id) found the session
SessionKnown == in_sessions

\* SessionManager.close_session(stream_id)
CloseSession ==
    IF SessionKnown
    THEN /\ is_active' = FALSE
         /\ tasks' = CancelPending(tasks, "close")
         /\ stt_connected' = FALSE
         /\ tts_connected' = FALSE
         /\ in_sessions' = FALSE
    ELSE UNCHANGED <<is_active, tasks, stt_connected, tts_connected, in_sessions>>

\* the stop event: SessionManager.close_session, then the loop breaks
EpStop ==
    /\ ep_pc = "open"
    /\ ep_pc' = "closed"
    /\ CloseSession
    /\ Did("step", 0)
    /\ UNCHANGED <<is_bot_speaking, is_ready, barge_in_enabled, stt_enabled, tts_audio_sent,
                   tts_audio_queue, pending_response_task, audio_buffer, transcript_parts,
                   current_transcript, full_transcript, stt_audio, cancel_event, tts_remote,
                   text_vars, nreq, bargein, conn_pc, greet_polls, stt_res, tts_res, replaced>>

\* a further start event on the connection: create_session makes a new
\* session, which takes the place of the old one in the endpoint's session
\* and stream_id variables; the old one is not closed. It stays in the
\* session map unless the new stream_id is the same (its entry is then
\* overwritten), and the connections it has opened stay open. The new
\* session starts as Init describes it.
EpStart(same_id) ==
    /\ ep_pc = "open"
    /\ Len(replaced) + 1 < MaxStarts
    /\ replaced' = Append(replaced, [registered |-> in_sessions /\ ~same_id,
                                     stt |-> stt_connected, tts |-> tts_connected])
    /\ is_active' = TRUE /\ is_bot_speaking' = FALSE /\ is_ready' = FALSE
    /\ barge_in_enabled' = FALSE /\ stt_enabled' = FALSE
    /\ tts_audio_sent' = 0 /\ tts_audio_queue' = <<>> /\ pending_response_task' = 0
    /\ in_sessions' = TRUE /\ audio_buffer' = <<>>
    /\ stt_connected' = FALSE /\ transcript_parts' = <<>> /\ current_transcript' = <<>>
    /\ full_transcript' = <<>>
    /\ stt_audio' = <<>>
    /\ tts_connected' = FALSE /\ cancel_event' = FALSE /\ tts_remote' = <<>>
    /\ messages' = <<>> /\ greeting_text' = TRUE
    /\ text_iterator' = <<>> /\ buffer' = <<>>
    /\ tasks' = [r \in Requests |-> NoTask] /\ nreq' = 0 /\ bargein' = <<>>
    /\ conn_pc' = "connecting" /\ stt_res' = "pending" /\ tts_res' = "pending"
    /\ greet_polls' = 0
    /\ Did("start", Len(replaced) + 1)
    /\ UNCHANGED ep_pc

\* the endpoint receives a text frame that json.loads rejects: the exception
\* leaves the while loop for the handler after it
EpInvalidJson ==
    /\ ep_pc = "open"
    /\ ep_pc' = "failed"
    /\ Did("invalid_json", 0)
    /\ UNCHANGED <<session_vars, stt_vars, tts_vars, text_vars, tasks, nreq, bargein,
                   conn_pc, greet_polls, stt_res, tts_res, replaced>>

\* the finally block of the endpoint: close_session once more (the first time
\* when an exception left the loop)
EpFinally ==
    /\ ep_pc \in {"closed", "failed"}
    /\ ep_pc' = "exited"
    /\ CloseSession
    /\ Did(IF ep_pc = "failed" THEN "error_close" ELSE "close_again", 0)
    /\ UNCHANGED <<is_bot_speaking, is_ready, barge_in_enabled, stt_enabled, tts_audio_sent,
                   tts_audio_queue, pending_response_task, audio_buffer, transcript_parts,
                   current_transcript, full_transcript, stt_audio, cancel_event, tts_remote,
                   text_vars, nreq, bargein, conn_pc, greet_polls, stt_res, tts_res, replaced>>

SendAudioFailedKeeps(connected) == connected

\* STTHandler.send_audio, the except branch: self.state.is_connected = False
SendAudioFailed(connected) == FALSE

\* a media event whose frame handle_media forwards and STTHandler.send_audio
\* fails to send: the handler marks the STT connection lost; then the loop
\* goes round and drains
EpMediaSendFails ==
    /\ ep_pc = "open"
    /\ is_ready /\ stt_connected /\ stt_enabled
    /\ stt_connected' = SendAudioFailed(stt_connected)
    /\ Drain
    /\ Did("stt_send_failed", 0)
    /\ UNCHANGED <<is_active, is_bot_speaking, is_ready, barge_in_enabled, stt_enabled,
                   pending_response_task, in_sessions, audio_buffer, transcript_parts,
                   current_transcript, full_transcript, stt_audio, tts_vars, text_vars,
                   co_vars>>

\* ------------------------------------------------------------ STT events
STTLive == stt_connected /\ stt_audio # <<>>

ResetCancelKeeps(flag) == flag

\* TTSHandler.reset_cancel: _cancel_event.clear()
ResetCancel(flag) == FALSE

\* on_user_finished(transcript): the assignments to is_bot_speaking,
\* tts_audio_sent, the cancel flag and the new response task
OnUserFinished(transcript) ==
    IF Strip(transcript) = <<>>
    THEN UNCHANGED <<cancel_event, is_bot_speaking, tts_audio_sent,
                     pending_response_task, tasks, nreq>>
    ELSE /\ nreq < MaxRequests
         /\ cancel_event' = ResetCancel(cancel_event)
         /\ is_bot_speaking' = TRUE
         /\ tts_audio_sent' = 0
         /\ nreq' = nreq + 1
         /\ pending_response_task' = nreq + 1
         /\ tasks' = [tasks EXCEPT ![nreq + 1] = [NoTask EXCEPT !.pc = "new"]]

AddPartAlways(parts, seg, is_final) == Append(parts, seg)

\* _handle_transcript: transcript_parts.append(transcript) when is_final
AddPart(parts, seg, is_final) == IF is_final THEN Append(parts, seg) ELSE parts

\* STTHandler._handle_transcript for a Results message with a non-empty
\* transcript (an empty one returns at once): a final segment is appended to
\* transcript_parts, an interim one replaces current_transcript; with
\* speech_final the full transcript is passed on when it is not empty and
\* both are reset
STTTranscript(seg, is_final, speech_final) ==
    /\ STTLive
    /\ LET parts == AddPart(transcript_parts, seg, is_final)
           full == GetFullTranscript(parts)
       IN IF speech_final
          THEN /\ IF full # <<>>
                  THEN OnUserFinished(full) /\ full_transcript' = full
                  ELSE UNCHANGED <<cancel_event, is_bot_speaking, tts_audio_sent,
                                   pending_response_task, tasks, nreq, full_transcript>>
               /\ transcript_parts' = ResetTranscript(parts)
               /\ current_transcript' = <<>>
               /\ Did("speech_final", 0)
          ELSE /\ transcript_parts' = parts
               /\ current_transcript' = IF is_final THEN current_transcript ELSE seg
               /\ Did("step", 0)
               /\ UNCHANGED <<cancel_event, is_bot_speaking, tts_audio_sent,
                              pending_response_task, tasks, nreq, full_transcript>>
    /\ UNCHANGED <<is_active, is_ready, barge_in_enabled, stt_enabled, tts_audio_queue,
                   in_sessions, audio_buffer, stt_connected, stt_audio,
                   tts_connected, tts_remote, text_vars, bargein, conn_pc,
                   greet_polls,
                   stt_res, tts_res, ep_pc, replaced>>

\* _handle_transcript for a final Results message
STTResults(seg, speech_final) ==
    /\ Len(transcript_parts) < MaxParts
    /\ STTTranscript(seg, TRUE, speech_final)

\* STTHandler._handle_utterance_end
STTUtteranceEnd ==
    /\ STTLive
    /\ LET full == GetFullTranscript(transcript_parts)
       IN /\ IF full # <<>>
             THEN OnUserFinished(full) /\ full_transcript' = full
             ELSE UNCHANGED <<cancel_event, is_bot_speaking, tts_audio_sent,
                              pending_response_task, tasks, nreq, full_transcript>>
          /\ Did("utterance_end", IF last.op = "speech_final" THEN 1 ELSE 0)
    /\ transcript_parts' = ResetTranscript(transcript_parts)
    /\ current_transcript' = <<>>
    /\ UNCHANGED <<is_active, is_ready, barge_in_enabled, stt_enabled, tts_audio_queue,
                   in_sessions, audio_buffer, stt_connected, stt_audio,
                   tts_connected, tts_remote, text_vars, bargein, conn_pc,
                   greet_polls,
                   stt_res, tts_res, ep_pc, replaced>>

BargeInConditionNoThreshold == is_bot_speaking /\ barge_in_enabled

\* on_speech_started: the barge-in condition
BargeInCondition ==
    is_bot_speaking /\ barge_in_enabled /\ tts_audio_sent > BargeInThreshold

\* STTHandler._handle_speech_started -> on_speech_started, up to the await of
\* send_clear inside TTSHandler.cancel (run to the end when TTS is not connected)
STTSpeechStarted ==
    /\ STTLive
    /\ IF BargeInCondition
       THEN /\ cancel_event' = TRUE
            /\ IF tts_connected
               THEN /\ Len(bargein) < MaxBargeIn
                    /\ tts_remote' = Append(tts_remote, ClearItem)
                    /\ bargein' = Append(bargein, pending_response_task)
                    /\ Did("barge_in", pending_response_task)
                    /\ UNCHANGED <<is_bot_speaking, tts_audio_sent, tasks>>
               ELSE /\ is_bot_speaking' = FALSE
                    /\ tts_audio_sent' = 0
                    /\ tasks' = CancelPending(tasks, "barge_in")
                    /\ Did("barge_in_now", pending_response_task)
                    /\ UNCHANGED <<tts_remote, bargein>>
       ELSE /\ Did("speech_ignored", 0)
            /\ UNCHANGED <<cancel_event, tts_remote, bargein, tasks, is_bot_speaking,
                           tts_audio_sent>>
    /\ UNCHANGED <<is_active, is_ready, barge_in_enabled, stt_enabled, tts_audio_queue,
                   pending_response_task, in_sessions, audio_buffer, stt_vars,
                   tts_connected, text_vars, nreq, conn_pc, greet_polls, stt_res, tts_res,
                   ep_pc, replaced>>

\* on_speech_started after TTSHandler.cancel returned
BargeInResume ==
    /\ bargein # <<>>
    /\ bargein' = Tail(bargein)
    /\ is_bot_speaking' = FALSE
    /\ tts_audio_sent' = 0
    /\ tasks' = CancelPending(tasks, "barge_in")
    /\ Did("barge_in_done", Head(bargein))
    /\ UNCHANGED <<is_active, is_ready, barge_in_enabled, stt_enabled, tts_audio_queue,
                   pending_response_task, in_sessions, audio_buffer, stt_vars, tts_vars,
                   text_vars, nreq, conn_pc, greet_polls, stt_res, tts_res, ep_pc, replaced>>

\* ------------------------------------------- TTS: the remote synthesizer
TTSLive == tts_connected /\ tts_remote # <<>>

HasClear(remote) == \E i \in 1..Len(remote) : remote[i].k = "clear"
FirstClear(remote) == CHOOSE i \in 1..Len(remote) :
                          remote[i].k = "clear" /\ \A j \in 1..(i - 1) : remote[j].k # "clear"

\* on_tts_audio
OnTtsAudio(q, frame) == IF is_active THEN DequeAppend(q, frame, QueueMaxLen) ELSE q

ProcessAudioNoCancelCheck(q, frame) == OnTtsAudio(q, frame)

\* TTSHandler._process_message for a bytes message
ProcessAudio(q, frame) == IF ~cancel_event THEN OnTtsAudio(q, frame) ELSE q

RECURSIVE Frames(_, _, _)
Frames(q, frame, n) == IF n = 0 THEN q ELSE Frames(ProcessAudio(q, frame), frame, n - 1)

\* the synthesizer returns the audio frames of the text at the head of its
\* input; each frame's message task runs _process_message
TTSAudio ==
    /\ TTSLive /\ Head(tts_remote).k = "text"
    /\ tts_audio_queue' = Frames(tts_audio_queue, Head(tts_remote).of, FramesPerText)
    /\ tts_remote' = Tail(tts_remote)
    /\ Did("audio", Head(tts_remote).of)
    /\ UNCHANGED <<is_active, is_bot_speaking, is_ready, barge_in_enabled, stt_enabled,
                   tts_audio_sent, pending_response_task, in_sessions, audio_buffer,
                   stt_vars, tts_connected, cancel_event, text_vars, co_vars>>

\* one more bytes message for the text at the head while its synthesis goes
\* on (a text is answered by several audio messages)
TTSAudioPart ==
    /\ TTSLive /\ Head(tts_remote).k = "text"
    /\ tts_audio_sent + Len(tts_audio_queue) + FramesPerText <= MaxQueued
    /\ tts_audio_queue' = Frames(tts_audio_queue, Head(tts_remote).of, FramesPerText)
    /\ Did("audio", Head(tts_remote).of)
    /\ UNCHANGED <<is_active, is_bot_speaking, is_ready, barge_in_enabled, stt_enabled,
                   tts_audio_sent, pending_response_task, in_sessions, audio_buffer,
                   stt_vars, tts_vars, text_vars, co_vars>>

\* one bytes message with the given content for the text at the head
TTSFrame(frame) ==
    /\ TTSLive /\ Head(tts_remote).k = "text"
    /\ Fresh(tts_audio_queue) < MaxFresh
    /\ tts_audio_queue' = ProcessAudio(tts_audio_queue, frame)
    /\ Did("audio", frame)
    /\ UNCHANGED <<is_active, is_bot_speaking, is_ready, barge_in_enabled, stt_enabled,
                   tts_audio_sent, pending_response_task, in_sessions, audio_buffer,
                   stt_vars, tts_vars, text_vars, co_vars>>

\* the Flushed marker: TTSHandler._process_message -> on_tts_complete
TTSFlushed ==
    /\ TTSLive /\ Head(tts_remote).k = "flush"
    /\ tts_remote' = Tail(tts_remote)
    /\ is_bot_speaking' = FALSE
    /\ Did("step", 0)
    /\ UNCHANGED <<is_active, is_ready, barge_in_enabled, stt_enabled, tts_audio_sent,
                   tts_audio_queue, pending_response_task, in_sessions, audio_buffer,
                   stt_vars, tts_connected, cancel_event, text_vars, co_vars>>

\* the Clear message takes effect: everything sent before it is discarded
TTSClear ==
    /\ tts_connected /\ HasClear(tts_remote)
    /\ tts_remote' = SubSeq(tts_remote, FirstClear(tts_remote) + 1, Len(tts_remote))
    /\ Did("step", 0)
    /\ UNCHANGED <<session_vars, stt_vars, tts_connected, cancel_event,
                   text_vars, co_vars>>

\* ------------------------------------- response task and the LLM generator
\* What one step of a response task may change: its own record, the history,
\* the synthesizer's input and is_bot_speaking.
Cur(r) == [t |-> tasks[r], m |-> messages, f |-> tts_remote, b |-> is_bot_speaking]

Apply(r, S) ==
    /\ tasks' = [tasks EXCEPT ![r] = S.t]
    /\ messages' = S.m
    /\ tts_remote' = S.f
    /\ is_bot_speaking' = S.b

TaskFrame ==
    UNCHANGED <<is_active, is_ready, stt_enabled, tts_audio_sent, tts_audio_queue,
                pending_response_task, in_sessions, audio_buffer, stt_vars, tts_connected,
                cancel_event, stream_vars, nreq, bargein, conn_pc, greet_polls, stt_res,
                tts_res, ep_pc, replaced>>

\* _stream_response: the finally block, the task ends
Finish(S) == [S EXCEPT !.t.pc = "done", !.b = FALSE]

\* _stream_response: await session.tts.flush() after stream_text returned
FinalFlush(S) ==
    IF tts_connected
    THEN [S EXCEPT !.t.pc = "flush", !.f = Append(@, FlushItem)]
    ELSE Finish(S)

\* stream_text: await self.flush() after the residue was sent
TailFlush(S) ==
    IF tts_connected
    THEN [S EXCEPT !.t.pc = "tail_flush", !.f = Append(@, FlushItem)]
    ELSE FinalFlush(S)

\* stream_text after its loop: the residue, when there is one and the cancel
\* flag is clear
AfterLoop(S, r) ==
    IF S.t.buf /\ ~cancel_event
    THEN IF tts_connected
         THEN [S EXCEPT !.t.pc = "tail_send", !.t.buf = FALSE, !.f = Append(@, TextItem(r))]
         ELSE TailFlush([S EXCEPT !.t.buf = FALSE])
    ELSE FinalFlush(S)

\* generate_response_stream resumed after one of its yields, up to its next
\* suspension point
ResumeGen(S, r) ==
    CASE S.t.gen = "y_mid" -> [S EXCEPT !.t.gen = "stream", !.t.pc = "next"]
      [] S.t.gen = "y_res" -> [S EXCEPT !.m = Append(@, FullMsg(r)),
                                        !.t.gen = "closing", !.t.pc = "next"]
      [] S.t.gen = "y_fb" -> [S EXCEPT !.t.gen = "closing", !.t.pc = "next"]
      [] OTHER -> AfterLoop([S EXCEPT !.t.gen = "done"], r)

\* stream_text receives a fragment: the cancel check, the buffer, send_text
\* when the fragment ends with a space or a flush character
Deliver(S, kind, r) ==
    IF cancel_event
    THEN FinalFlush([S EXCEPT !.t.gen = Abandoned(@)])
    ELSE IF kind \in {"flush", "space"}
    THEN IF tts_connected
         THEN [S EXCEPT !.t.pc = "send", !.t.buf = FALSE,
                        !.f = @ \o <<TextItem(r)>>
                                \o (IF kind = "flush" THEN <<FlushItem>> ELSE <<>>)]
         ELSE ResumeGen([S EXCEPT !.t.buf = FALSE], r)
    ELSE ResumeGen([S EXCEPT !.t.buf = TRUE], r)

Runnable(r, pc) == tasks[r].pc = pc /\ tasks[r].cancel_req = "no"

\* generate_response_stream: greeting and not self.state.messages
GreetingContext == greeting_text /\ messages = <<>>

\* the task's first step: _stream_response up to the await of _make_request
\* inside generate_response_stream
TaskStart(r) ==
    /\ Runnable(r, "new")
    /\ barge_in_enabled' = TRUE
    /\ Apply(r, [Cur(r) EXCEPT !.t.pc = "next", !.t.gen = "req",
                               !.t.ctx = GreetingContext,
                               !.m = Append(@, UserMsg(r))])
    /\ greeting_text' = IF GreetingContext THEN FALSE ELSE greeting_text
    /\ Did("step", 0)
    /\ TaskFrame

CancelDeliverAppendsFallback(r) ==
    /\ tasks[r].cancel_req # "no"
    /\ tasks[r].pc \in SuspendedPcs \cup {"new"}
    /\ tasks' = [tasks EXCEPT ![r].pc = "cancelled", ![r].gen = Abandoned(@)]
    /\ is_bot_speaking' = IF tasks[r].pc = "new" THEN is_bot_speaking ELSE FALSE
    /\ messages' = IF tasks[r].gen \in {"req", "stream", "y_mid", "y_res"}
                   THEN Append(messages, ApologyMsg(r)) ELSE messages
    /\ Did("step", 0)
    /\ UNCHANGED <<barge_in_enabled, tts_remote, greeting_text>>
    /\ TaskFrame

\* CancelledError raised at the task's suspension point: nothing in
\* generate_response_stream or stream_text catches it; _stream_response does
\* and runs its finally block (a task that never started just ends)
CancelDeliver(r) ==
    /\ tasks[r].cancel_req # "no"
    /\ tasks[r].pc \in SuspendedPcs \cup {"new"}
    /\ tasks' = [tasks EXCEPT ![r].pc = "cancelled", ![r].gen = Abandoned(@)]
    /\ is_bot_speaking' = IF tasks[r].pc = "new" THEN is_bot_speaking ELSE FALSE
    /\ Did("step", 0)
    /\ UNCHANGED <<barge_in_enabled, messages, greeting_text, tts_remote>>
    /\ TaskFrame

\* _make_request returns: a streaming response, or None (non-200, request error)
LLMResponse(r, ok) ==
    /\ Runnable(r, "next") /\ tasks[r].gen = "req"
    /\ IF ok
       THEN /\ Apply(r, [Cur(r) EXCEPT !.t.gen = "stream"])
            /\ Did("step", 0)
       ELSE /\ Apply(r, Deliver([Cur(r) EXCEPT !.t.gen = "y_fb0",
                                               !.m = Append(@, ApologyMsg(r))], "flush", r))
            /\ Did("apology", r)
    /\ UNCHANGED <<barge_in_enabled, greeting_text>>
    /\ TaskFrame

\* a chunk whose text completes a fragment: the generator yields it
ChunkYield(r, kind) ==
    /\ Runnable(r, "next") /\ tasks[r].gen = "stream" /\ tasks[r].ny < MaxYields
    /\ Apply(r, Deliver([Cur(r) EXCEPT !.t.gen = "y_mid", !.t.ny = @ + 1], kind, r))
    /\ Did("step", 0)
    /\ UNCHANGED <<barge_in_enabled, greeting_text>>
    /\ TaskFrame

\* the stream ends: with text left in text_buffer the residue is yielded;
\* without, the turn is appended (the apology when nothing was generated)
StreamEnd(r, residue, kind) ==
    /\ Runnable(r, "next") /\ tasks[r].gen = "stream"
    /\ IF residue
       THEN /\ Apply(r, Deliver([Cur(r) EXCEPT !.t.gen = "y_res"], kind, r))
            /\ Did("step", 0)
       ELSE IF tasks[r].ny > 0
       THEN /\ kind = "flush"
            /\ Apply(r, [Cur(r) EXCEPT !.t.gen = "closing", !.m = Append(@, FullMsg(r))])
            /\ Did("step", 0)
       ELSE /\ kind = "flush"
            /\ Apply(r, Deliver([Cur(r) EXCEPT !.t.gen = "y_fb",
                                               !.m = Append(@, ApologyMsg(r))], "flush", r))
            /\ Did("apology", r)
    /\ UNCHANGED <<barge_in_enabled, greeting_text>>
    /\ TaskFrame

\* the stream raises (aiohttp.ClientError or any other Exception)
StreamError(r) ==
    /\ Runnable(r, "next") /\ tasks[r].gen = "stream"
    /\ Apply(r, Deliver([Cur(r) EXCEPT !.t.gen = "y_fb",
                                       !.m = Append(@, ApologyMsg(r))], "flush", r))
    /\ Did("apology", r)
    /\ UNCHANGED <<barge_in_enabled, greeting_text>>
    /\ TaskFrame

\* the generator's finally block (the HTTP session is closed): the iteration ends
GenClosed(r) ==
    /\ Runnable(r, "next") /\ tasks[r].gen = "closing"
    /\ Apply(r, AfterLoop([Cur(r) EXCEPT !.t.gen = "done"], r))
    /\ Did("step", 0)
    /\ UNCHANGED <<barge_in_enabled, greeting_text>>
    /\ TaskFrame

\* send_text inside the loop of stream_text returns
SendDone(r) ==
    /\ Runnable(r, "send")
    /\ Apply(r, ResumeGen(Cur(r), r))
    /\ Did("step", 0)
    /\ UNCHANGED <<barge_in_enabled, greeting_text>>
    /\ TaskFrame

\* send_text of the residue returns
TailSendDone(r) ==
    /\ Runnable(r, "tail_send")
    /\ Apply(r, TailFlush(Cur(r)))
    /\ Did("step", 0)
    /\ UNCHANGED <<barge_in_enabled, greeting_text>>
    /\ TaskFrame

\* flush after the residue returns
TailFlushDone(r) ==
    /\ Runnable(r, "tail_flush")
    /\ Apply(r, FinalFlush(Cur(r)))
    /\ Did("step", 0)
    /\ UNCHANGED <<barge_in_enabled, greeting_text>>
    /\ TaskFrame

\* the last flush returns
FlushDone(r) ==
    /\ Runnable(r, "flush")
    /\ Apply(r, Finish(Cur(r)))
    /\ Did("step", 0)
    /\ UNCHANGED <<barge_in_enabled, greeting_text>>
    /\ TaskFrame

\* ------------------------------------------ stream_text on the text itself
\* TTSHandler.FLUSH_CHARS
FLUSH_CHARS == {".", "!", "?", ":", ";"}

\* the fragments of SpecStream: a word, a word with a trailing blank, a
\* sentence end, a fragment that starts with a sentence end, a blank
Tokens == {<<"a">>, <<"a", Space>>, <<"a", ".">>, <<".", "a">>, <<Space>>}

TokenSeqs == UNION {[1..n -> Tokens] : n \in 0..MaxTokens}

Last(s) == s[Len(s)]

\* TTSHandler.send_text(text): the text, and a flush when it ends a sentence
SendText(remote, text) ==
    IF ~tts_connected \/ text = <<>>
    THEN remote
    ELSE remote \o <<TextItem(text)>>
                \o (IF Last(text) \in FLUSH_CHARS THEN <<FlushItem>> ELSE <<>>)

\* TTSHandler.flush
Flush(remote) == IF tts_connected THEN Append(remote, FlushItem) ELSE remote

ShouldSendOnSpace(token, buf) == token # <<>> /\ Last(token) = Space

\* stream_text: token.endswith(' ') or (buffer and buffer[-1] in FLUSH_CHARS),
\* buf being the buffer with the token added
ShouldSend(token, buf) ==
    (token # <<>> /\ Last(token) = Space) \/ (buf # <<>> /\ Last(buf) \in FLUSH_CHARS)

\* one iteration of the loop of stream_text on the next fragment of its
\* iterator; with the cancel flag set the loop breaks, stream_text returns
\* without sending the residue and _stream_response flushes
StreamToken(r) ==
    /\ Runnable(r, "next") /\ tasks[r].gen = "stream" /\ text_iterator # <<>>
    /\ IF cancel_event
       THEN /\ tts_remote' = Flush(tts_remote)
            /\ tasks' = [tasks EXCEPT ![r].pc = "flush", ![r].gen = Abandoned(@)]
            /\ UNCHANGED <<text_iterator, buffer>>
       ELSE LET token == Head(text_iterator)
                buf == buffer \o token
            IN /\ text_iterator' = Tail(text_iterator)
               /\ IF ShouldSend(token, buf)
                  THEN tts_remote' = SendText(tts_remote, buf) /\ buffer' = <<>>
                  ELSE buffer' = buf /\ UNCHANGED tts_remote
               /\ UNCHANGED tasks
    /\ Did("fragment", r)
    /\ UNCHANGED <<session_vars, stt_vars, tts_connected, cancel_event, messages,
                   greeting_text, nreq, bargein, conn_pc, greet_polls, stt_res, tts_res,
                   ep_pc, replaced>>

\* the iterator is exhausted: stream_text sends the residue and flushes (when
\* there is a residue and the cancel flag is clear) and returns, and
\* _stream_response flushes
StreamExhausted(r) ==
    /\ Runnable(r, "next") /\ tasks[r].gen = "stream" /\ text_iterator = <<>>
    /\ tts_remote' = IF buffer # <<>> /\ ~cancel_event
                     THEN Flush(Flush(SendText(tts_remote, buffer)))
                     ELSE Flush(tts_remote)
    /\ buffer' = <<>>
    /\ tasks' = [tasks EXCEPT ![r].pc = "flush", ![r].gen = "done"]
    /\ Did("exhausted", r)
    /\ UNCHANGED <<session_vars, stt_vars, tts_connected, cancel_event, messages,
                   greeting_text, text_iterator, nreq, bargein, conn_pc, greet_polls,
                   stt_res, tts_res, ep_pc, replaced>>

\* one iteration of the loop of stream_text in which connection.send_text
\* raises: send_text logs the error and returns, is_connected stays as it
\* was, the buffer is emptied and the loop goes on with the next fragment
StreamTokenSendFails(r) ==
    /\ Runnable(r, "next") /\ tasks[r].gen = "stream" /\ text_iterator # <<>>
    /\ ~cancel_event /\ tts_connected
    /\ ShouldSend(Head(text_iterator), buffer \o Head(text_iterator))
    /\ text_iterator' = Tail(text_iterator)
    /\ buffer' = <<>>
    /\ Did("tts_send_failed", r)
    /\ UNCHANGED <<session_vars, stt_vars, tts_vars, messages, greeting_text, tasks, nreq,
                   bargein, conn_pc, greet_polls, stt_res, tts_res, ep_pc, replaced>>

\* ------------------------------------------------------ the specifications
\* The whole call, from create_session to the stop event.
Next ==
    \/ \E ok \in BOOLEAN : STTConnect(ok)
    \/ \E ok \in BOOLEAN : TTSConnect(ok)
    \/ ConnectDone
    \/ GreetArrival
    \/ GreetDrained
    \/ GreetDone
    \/ EpTimeout
    \/ EpMedia(1) /\ Len(stt_audio') <= MaxCallInbound
    \/ EpStop
    \/ EpFinally
    \/ \E seg \in Segments, sf \in BOOLEAN :
           STTResults(seg, sf) /\ nreq' <= MaxCallRequests
    \/ STTUtteranceEnd /\ nreq' <= MaxCallRequests
    \/ STTSpeechStarted
    \/ BargeInResume
    \/ TTSAudio
    \/ TTSFlushed
    \/ TTSClear
    \/ \E r \in Requests : TaskStart(r)
    \/ \E r \in Requests : CancelDeliver(r)
    \/ \E r \in Requests, ok \in BOOLEAN : LLMResponse(r, ok)
    \/ \E r \in Requests, k \in {"flush", "space"} : ChunkYield(r, k)
    \/ \E r \in Requests, res \in BOOLEAN, k \in Kinds : StreamEnd(r, res, k)
    \/ \E r \in Requests : StreamError(r)
    \/ \E r \in Requests : GenClosed(r)
    \/ \E r \in Requests : SendDone(r)
    \/ \E r \in Requests : TailSendDone(r)
    \/ \E r \in Requests : TailFlushDone(r)
    \/ \E r \in Requests : FlushDone(r)

Spec == Init /\ [][Next]_vars

\* Turn taking: the session is Listening after the greeting was spoken and the
\* first inbound frame was forwarded; the caller speaks up to MaxRequests times
\* and the LLM answers in sentences (every fragment ends with a flush
\* character, the stream leaves no residue). The call is not closed.
Listening ==
    /\ is_active = TRUE /\ is_bot_speaking = FALSE /\ is_ready = TRUE
    /\ barge_in_enabled = TRUE /\ stt_enabled = TRUE
    /\ tts_audio_sent = FramesPerText /\ tts_audio_queue = <<>>
    /\ pending_response_task = 0
    /\ in_sessions = TRUE /\ audio_buffer = <<>>
    /\ stt_connected = TRUE /\ transcript_parts = <<>> /\ current_transcript = <<>>
    /\ full_transcript = <<>>
    /\ stt_audio = <<1>>
    /\ tts_connected = TRUE /\ cancel_event = FALSE /\ tts_remote = <<>>
    /\ messages = <<>>
    /\ text_iterator = <<>> /\ buffer = <<>>
    /\ tasks = [r \in Requests |-> NoTask] /\ nreq = 0 /\ bargein = <<>>
    /\ conn_pc = "done" /\ stt_res = "ok" /\ tts_res = "ok"
    /\ greet_polls = 0
    /\ ep_pc = "open" /\ replaced = <<>>
    /\ last = [op |-> "stt_forward", arg |-> 0]

\* the session was created with a call purpose: its LLM handler holds the greeting
InitListening == Listening /\ greeting_text = TRUE

NextTurns ==
    \/ EpTimeout
    \/ \E seg \in Segments, sf \in BOOLEAN : STTResults(seg, sf)
    \/ STTUtteranceEnd
    \/ STTSpeechStarted
    \/ BargeInResume
    \/ TTSAudio
    \/ TTSFlushed
    \/ TTSClear
    \/ \E r \in Requests : TaskStart(r)
    \/ \E r \in Requests : CancelDeliver(r)
    \/ \E r \in Requests, ok \in BOOLEAN : LLMResponse(r, ok)
    \/ \E r \in Requests : ChunkYield(r, "flush")
    \/ \E r \in Requests : StreamEnd(r, FALSE, "flush")
    \/ \E r \in Requests : GenClosed(r)
    \/ \E r \in Requests : SendDone(r)
    \/ \E r \in Requests : FlushDone(r)

SpecTurns == InitListening /\ [][NextTurns]_vars

\* Two utterances, each one final segment with speech_final, where a text is
\* answered by more than one audio message and the LLM request succeeds.
NextLate ==
    \/ EpTimeout
    \/ STTResults(<<"a">>, TRUE)
    \/ STTSpeechStarted
    \/ BargeInResume
    \/ TTSAudio
    \/ TTSAudioPart
    \/ TTSFlushed
    \/ TTSClear
    \/ \E r \in Requests : TaskStart(r)
    \/ \E r \in Requests : CancelDeliver(r)
    \/ \E r \in Requests : LLMResponse(r, TRUE)
    \/ \E r \in Requests : ChunkYield(r, "flush")
    \/ \E r \in Requests : StreamEnd(r, FALSE, "flush")
    \/ \E r \in Requests : GenClosed(r)
    \/ \E r \in Requests : SendDone(r)
    \/ \E r \in Requests : FlushDone(r)

SpecLate == InitListening /\ [][NextLate]_vars

\* The endpoint and the inbound audio, without a user turn: connect, greeting,
\* media frames (the STT send may fail), an invalid text frame, stop.
NextMedia ==
    \/ \E ok \in BOOLEAN : STTConnect(ok)
    \/ \E ok \in BOOLEAN : TTSConnect(ok)
    \/ ConnectDone
    \/ GreetArrival
    \/ GreetDrained
    \/ GreetDone
    \/ EpTimeout
    \/ \E f \in 1..FrameTags : EpMedia(f)
    \/ EpMediaSendFails
    \/ \E k \in 0..(DrainBatch - 1) : EpTimeoutSendFails(k)
    \/ EpInvalidJson
    \/ EpStop
    \/ EpFinally
    \/ TTSAudio
    \/ TTSFlushed

SpecMedia == Init /\ [][NextMedia]_vars

\* The greeting protocol poll by poll: connect, the greeting's audio, the
\* endpoint's drain on its receive timeout. The event loop resumes the
\* greeting task whenever its sleep is over.
NextGreeting ==
    \/ \E ok \in BOOLEAN : STTConnect(ok)
    \/ \E ok \in BOOLEAN : TTSConnect(ok)
    \/ ConnectDone
    \/ GreetWaitPoll
    \/ GreetDrainPoll
    \/ GreetDone
    \/ EpTimeout
    \/ TTSAudio
    \/ TTSFlushed

SpecGreeting ==
    /\ Init /\ [][NextGreeting]_vars
    /\ WF_vars(GreetWaitPoll) /\ WF_vars(GreetDrainPoll) /\ WF_vars(GreetDone)

\* The system prompt of the LLM requests: the session is Listening, created
\* with a call purpose (pre-generated content or initialize_for_call, which
\* store the greeting in the LLM handler) or without one (create_session
\* stores none); two utterances, answered in sentences or by the apology.
InitPrompt == Listening /\ greeting_text \in BOOLEAN

NextPrompt ==
    \/ EpTimeout
    \/ STTResults(<<"a">>, TRUE)
    \/ TTSAudio
    \/ TTSFlushed
    \/ \E r \in Requests : TaskStart(r)
    \/ \E r \in Requests, ok \in BOOLEAN : LLMResponse(r, ok)
    \/ \E r \in Requests : ChunkYield(r, "flush")
    \/ \E r \in Requests : StreamEnd(r, FALSE, "flush")
    \/ \E r \in Requests : GenClosed(r)
    \/ \E r \in Requests : SendDone(r)
    \/ \E r \in Requests : FlushDone(r)

SpecPrompt == InitPrompt /\ [][NextPrompt]_vars

\* stream_text on the text of the fragments: response 1 is being streamed
\* (its LLM request was answered), the iterator yields up to MaxTokens
\* fragments, and the cancel flag was set by a barge-in or was not.
InitStream ==
    /\ is_active = TRUE /\ is_bot_speaking = TRUE /\ is_ready = TRUE
    /\ barge_in_enabled = TRUE /\ stt_enabled = TRUE
    /\ tts_audio_sent = 0 /\ tts_audio_queue = <<>>
    /\ pending_response_task = 1
    /\ in_sessions = TRUE /\ audio_buffer = <<>>
    /\ stt_connected = TRUE /\ transcript_parts = <<>> /\ current_transcript = <<>>
    /\ full_transcript = <<"a">>
    /\ stt_audio = <<1>>
    /\ tts_connected = TRUE /\ cancel_event \in BOOLEAN /\ tts_remote = <<>>
    /\ messages = <<UserMsg(1)>> /\ greeting_text = FALSE
    /\ text_iterator \in TokenSeqs /\ buffer = <<>>
    /\ tasks = [r \in Requests |->
                   IF r = 1 THEN [NoTask EXCEPT !.pc = "next", !.gen = "stream", !.ctx = TRUE]
                   ELSE NoTask]
    /\ nreq = 1 /\ bargein = <<>>
    /\ conn_pc = "done" /\ stt_res = "ok" /\ tts_res = "ok"
    /\ greet_polls = 0
    /\ ep_pc = "open" /\ replaced = <<>>
    /\ last = [op |-> "step", arg |-> 0]

NextStream ==
    \/ \E r \in Requests : StreamToken(r)
    \/ \E r \in Requests : StreamExhausted(r)
    \/ \E r \in Requests : FlushDone(r)

SpecStream == InitStream /\ [][NextStream]_vars

\* Transient send failures while response 1 is being streamed: a send of
\* text to TTS or of an inbound frame to STT raises.
NextFailing ==
    \/ \E r \in Requests : StreamToken(r)
    \/ \E r \in Requests : StreamTokenSendFails(r)
    \/ \E r \in Requests : StreamExhausted(r)
    \/ \E r \in Requests : FlushDone(r)
    \/ EpMediaSendFails

SpecFailing == InitStream /\ [][NextFailing]_vars

\* A connection that receives more than one start event: connect, greeting,
\* a further start, stop, the end of the endpoint.
NextStarts ==
    \/ \E ok \in BOOLEAN : STTConnect(ok)
    \/ \E ok \in BOOLEAN : TTSConnect(ok)
    \/ ConnectDone
    \/ GreetArrival
    \/ GreetDrained
    \/ GreetDone
    \/ \E same_id \in BOOLEAN : EpStart(same_id)
    \/ EpTimeout
    \/ EpStop
    \/ EpFinally
    \/ TTSAudio
    \/ TTSFlushed

SpecStarts == Init /\ [][NextStarts]_vars

\* The transcript buffer of the STT handler: final and interim Results
\* messages, with and without speech_final, and UtteranceEnd messages.
NextTranscript ==
    \/ \E seg \in Utterances, fin \in BOOLEAN, sf \in BOOLEAN :
           Len(transcript_parts) < MaxSegments /\ STTTranscript(seg, fin, sf)
    \/ STTUtteranceEnd

SpecTranscript == InitListening /\ [][NextTranscript]_vars

\* The bounded containers.  The session is past its greeting, whose audio the
\* synthesizer is still returning; the STT connection is lost (send_audio
\* failed), so handle_media takes its last branch; the outbound queue and the
\* buffer start empty or within Slack frames of their capacity.
Filled(n) == [i \in 1..n |-> 0]

InitQueues ==
    /\ is_active = TRUE /\ is_bot_speaking = FALSE /\ is_ready = TRUE
    /\ barge_in_enabled = TRUE /\ stt_enabled = TRUE
    /\ tts_audio_sent = 0
    /\ tts_audio_queue \in {Filled(n) : n \in {0} \cup ((QueueMaxLen - Slack)..QueueMaxLen)}
    /\ audio_buffer \in {Filled(n) : n \in {0} \cup ((BufferMaxLen - Slack)..BufferMaxLen)}
    /\ pending_response_task = 0 /\ in_sessions = TRUE
    /\ stt_connected = FALSE /\ transcript_parts = <<>> /\ current_transcript = <<>>
    /\ full_transcript = <<>>
    /\ stt_audio = <<>>
    /\ tts_connected = TRUE /\ cancel_event = FALSE
    /\ tts_remote = <<TextItem(0), FlushItem, FlushItem>>
    /\ messages = <<>> /\ greeting_text = TRUE
    /\ text_iterator = <<>> /\ buffer = <<>>
    /\ tasks = [r \in Requests |-> NoTask] /\ nreq = 0 /\ bargein = <<>>
    /\ conn_pc = "done" /\ stt_res = "ok" /\ tts_res = "ok"
    /\ greet_polls = 0
    /\ ep_pc = "open" /\ replaced = <<>>
    /\ last = [op |-> "start", arg |-> 0]

NextQueues ==
    \/ \E f \in 1..FrameTags : TTSFrame(f)
    \/ \E f \in 1..FrameTags : EpMedia(f)

SpecQueues == InitQueues /\ [][NextQueues]_vars

\* ------------------------------------------------------------ properties
AssistantTurns(r) ==
    Cardinality({i \in 1..Len(messages) :
                     messages[i].role = "assistant" /\ messages[i].req = r})

Blank(s) == \A i \in 1..Len(s) : s[i] = Space

HandlerDone == last.op \in {"barge_in_done", "barge_in_now"}

\* C1: the conversation history never holds two consecutive turns of the same
\* role.
NoConsecutiveSameRole ==
    \A i \in 1..(Len(messages) - 1) : messages[i].role # messages[i + 1].role

\* C2: a request whose response task was cancelled by a barge-in has no
\* assistant turn in the history; every other request has at most one.
InterruptedHasNoTurn ==
    \A r \in Requests :
        /\ AssistantTurns(r) <= 1
        /\ (tasks[r].pc = "cancelled" /\ tasks[r].cancel_req = "barge_in")
               => AssistantTurns(r) = 0

\* C3: a speech_started sets the TTS cancel flag only when the bot is speaking,
\* barge-in is armed and more than 10 frames were sent; with 10 or fewer it
\* leaves the cancel flag, the pending task, is_bot_speaking and the TTS queue
\* as they were.
SpeechStartedThreshold ==
    [][/\ (last'.op \in {"barge_in", "barge_in_now"})
              => (is_bot_speaking /\ barge_in_enabled /\ tts_audio_sent > 10)
       /\ (last'.op \in {"barge_in", "barge_in_now", "speech_ignored"}
               /\ tts_audio_sent <= 10)
              => UNCHANGED <<cancel_event, pending_response_task, tasks,
                             is_bot_speaking, tts_audio_queue, tts_remote, bargein>>
       /\ (cancel_event' /\ ~cancel_event)
              => last'.op \in {"barge_in", "barge_in_now"}]_vars

\* C3 witness: a speech_started was ignored while the bot was speaking, barge-in
\* armed, with exactly 10 frames sent.
SpeechIgnoredAtThreshold ==
    /\ last.op = "speech_ignored"
    /\ is_bot_speaking /\ barge_in_enabled /\ tts_audio_sent = 10
    /\ pending_response_task # 0 /\ ~TaskDone(pending_response_task)
    /\ ~cancel_event

\* C4: when the barge-in handler has completed, the outbound TTS queue is empty.
BargeInEmptiesQueue == HandlerDone => tts_audio_queue = <<>>

\* C5: when the barge-in handler has completed, the task that was pending at
\* trigger time is cancelled or done, the cancel flag is set, tts_audio_sent is
\* 0 and the session is not bot-speaking.
BargeInPostcondition ==
    HandlerDone =>
        /\ cancel_event
        /\ tts_audio_sent = 0
        /\ ~is_bot_speaking
        /\ last.arg # 0 => (tasks[last.arg].cancel_req # "no" \/ TaskDone(last.arg))

\* C6: a response task cancelled by a barge-in before its generator appended
\* the turn (the LLM stream had not completed) leaves no assistant turn for its
\* request.
CancelledAppendsNothing ==
    \A r \in Requests :
        (tasks[r].cancel_req = "barge_in" /\ tasks[r].pc = "cancelled"
             /\ tasks[r].gen \in {"idle", "killed"})
            => AssistantTurns(r) = 0

\* C6 witness: a task was cancelled by a barge-in after its request was issued
\* and its user turn appended, before the generator reached its append.
CancelledMidStream ==
    \E r \in Requests :
        /\ tasks[r].cancel_req = "barge_in" /\ tasks[r].pc = "cancelled"
        /\ tasks[r].gen = "killed"
        /\ tasks[r].ny > 0
        /\ \E i \in 1..Len(messages) : messages[i] = UserMsg(r)

\* C7: while the greeting is in progress no inbound frame has been forwarded to
\* STT.
GreetingGate == InGreeting => (stt_audio = <<>> /\ last.op # "stt_forward")

\* C7 witness: an inbound frame arrived during the greeting and was discarded.
DiscardedInGreeting ==
    InGreeting /\ last.op = "media_discard" /\ is_ready /\ stt_connected

\* C8: an utterance_end arriving right after the speech_final Results of the
\* same utterance starts no task and changes nothing of the session: the
\* transcript buffer was reset by the first.
SecondEndIsNoOp ==
    [][(last.op = "speech_final" /\ last'.op = "utterance_end")
           => /\ transcript_parts = <<>>
              /\ UNCHANGED <<tasks, nreq, pending_response_task, messages,
                             cancel_event, is_bot_speaking, tts_audio_sent,
                             tts_remote>>]_vars

\* C8 witness: speech_final started the first response task and the
\* utterance_end that followed it left that task the only one.
OneTaskAfterBoth ==
    /\ last = [op |-> "utterance_end", arg |-> 1]
    /\ nreq = 1 /\ pending_response_task = 1 /\ tasks[1].pc = "new"

\* C9: an utterance_end or a speech_final whose accumulated text is empty or
\* blank creates no task, appends no turn and leaves the session as it was.
BlankTranscriptIgnored ==
    [][/\ (STTUtteranceEnd /\ Blank(Join(transcript_parts)))
              => UNCHANGED <<tasks, nreq, pending_response_task, messages,
                             cancel_event, is_bot_speaking, tts_audio_sent,
                             tts_remote>>
       /\ \A seg \in Segments :
              (STTResults(seg, TRUE) /\ Blank(Join(Append(transcript_parts, seg))))
                  => UNCHANGED <<tasks, nreq, pending_response_task, messages,
                                 cancel_event, is_bot_speaking, tts_audio_sent,
                                 tts_remote>>]_vars

\* C9 witness: a speech_final Results whose text was blank was handled before
\* any request was accepted: no task exists, the history is empty and the
\* session is still Listening.
BlankSpeechFinal ==
    /\ last.op = "speech_final"
    /\ nreq = 0 /\ pending_response_task = 0 /\ messages = <<>>
    /\ ~is_bot_speaking /\ transcript_parts = <<>>

\* C10: when the generator has appended its apology, the history ends with the
\* request's user turn followed by the apology.
ApologyEndsHistory ==
    last.op = "apology" =>
        /\ Len(messages) >= 2
        /\ messages[Len(messages)] = ApologyMsg(last.arg)
        /\ messages[Len(messages) - 1] = UserMsg(last.arg)

\* C11: audio of a text that was sent before a Clear still on its way (the
\* frames arrive after the barge-in handler called tts.cancel() and returned,
\* and before the clear takes effect) is not appended to the outbound queue.
LateAudioDropped ==
    [][((TTSAudio \/ TTSAudioPart) /\ HasClear(tts_remote) /\ bargein = <<>>
            /\ Head(tts_remote).of \in Requests)
           => UNCHANGED tts_audio_queue]_vars

\* C12: while the local cancel flag is set, arriving audio leaves the outbound
\* queue unchanged.
CancelledAudioIsNoOp ==
    [][(TTSAudio /\ cancel_event) => UNCHANGED tts_audio_queue]_vars

\* C12 witness: audio of a response arrived while the cancel flag was set and
\* the queue is empty.
AudioWhileCancelled ==
    /\ last.op = "audio" /\ last.arg \in Requests
    /\ cancel_event /\ is_active /\ tts_audio_queue = <<>>

\* C13: an accepted utterance (reset_cancel) leaves the cancel flag clear
\* whatever it was; with the flag clear every arriving frame of an active
\* session is appended to the outbound queue and a fragment handed to
\* stream_text is sent to TTS.
ResetRestoresDelivery ==
    [][/\ (nreq' = nreq + 1) => ~cancel_event'
       /\ (TTSAudio /\ ~cancel_event /\ is_active)
              => /\ Len(tts_audio_queue') = Len(tts_audio_queue) + FramesPerText
                 /\ \A i \in 1..Len(tts_audio_queue') :
                        i > Len(tts_audio_queue)
                            => tts_audio_queue'[i] = Head(tts_remote).of
       /\ \A r \in Requests :
              (ChunkYield(r, "flush") /\ ~cancel_event)
                  => Len(tts_remote') = Len(tts_remote) + 2]_vars

\* C13 witness: after a barge-in cancelled response 1 and the next utterance
\* reset the flag, audio of response 2 arrived and is in the outbound queue.
DeliveredAfterReset ==
    /\ last = [op |-> "audio", arg |-> 2]
    /\ tasks[1].cancel_req = "barge_in" /\ ~cancel_event
    /\ tts_audio_queue # <<>> /\ tts_audio_queue[Len(tts_audio_queue)] = 2

\* C14: the pre-greeting buffer never holds more than 500 frames and the
\* outbound queue never more than 1000; a frame appended to a full queue or
\* buffer removes its oldest frame, becomes its newest frame and leaves the
\* others in their order; appended to one that is not full it removes none.
BoundedDropOldest ==
    /\ [](Len(tts_audio_queue) <= QueueMaxLen /\ Len(audio_buffer) <= BufferMaxLen)
    /\ [][/\ \A f \in 1..FrameTags :
              TTSFrame(f)
                  => tts_audio_queue' =
                         IF Len(tts_audio_queue) = QueueMaxLen
                         THEN SubSeq(tts_audio_queue, 2, QueueMaxLen) \o <<f>>
                         ELSE tts_audio_queue \o <<f>>
          /\ \A f \in 1..FrameTags :
              (EpMedia(f) /\ last'.op = "media_buffer")
                  => audio_buffer' =
                         IF Len(audio_buffer) = BufferMaxLen
                         THEN SubSeq(audio_buffer, 2, BufferMaxLen) \o <<f>>
                         ELSE audio_buffer \o <<f>>]_vars

\* C14 witness: three frames arrived at the outbound queue, which was full
\* after each of them (the three drains that followed left it 15 short), and
\* three at the buffer; both lost frames they started with and hold the new
\* frames last, in their order of arrival.
BothOverflowed ==
    /\ Len(audio_buffer) = BufferMaxLen /\ audio_buffer[1] = 0
    /\ SubSeq(audio_buffer, BufferMaxLen - 2, BufferMaxLen) = <<2, 1, 2>>
    /\ Len(tts_audio_queue) = QueueMaxLen - 3 * DrainBatch /\ tts_audio_queue[1] = 0
    /\ SubSeq(tts_audio_queue, Len(tts_audio_queue) - 2, Len(tts_audio_queue)) = <<1, 2, 1>>

MediaOps == {"stt_forward", "media_discard", "media_buffer"}

\* C15: from Greeting entry on (is_ready set, the buffer cleared) the
\* pre-greeting buffer stays empty: no frame is appended to it.
BufferUnusedAfterGreeting == is_ready => audio_buffer = <<>>

\* C16: an inbound frame is forwarded to STT only when STT is ready and the
\* gate is on, discarded only during Greeting (ready, gate off), and appended
\* to the pre-greeting buffer when it arrives during Connecting (not ready).
MediaDispatchByPhase ==
    /\ last.op = "stt_forward" => (is_ready /\ stt_enabled)
    /\ last.op = "media_discard" => (is_ready /\ ~stt_enabled)
    /\ (last.op \in MediaOps /\ ~is_ready) => last.op = "media_buffer"

\* C17: the first close_session call deactivates the session, cancels the
\* pending response task if it is not done, closes STT and TTS and removes
\* the session; a further call for the removed session changes nothing and
\* returns normally.
CloseIdempotent ==
    [][/\ EpStop
          => /\ ~is_active' /\ ~stt_connected' /\ ~tts_connected' /\ ~in_sessions'
             /\ (pending_response_task # 0 /\ ~TaskDone(pending_response_task))
                    => tasks'[pending_response_task].cancel_req # "no"
       /\ (EpFinally /\ ~in_sessions)
          => /\ ep_pc' = "exited"
             /\ UNCHANGED <<session_vars, stt_vars, tts_vars, messages, tasks, nreq,
                            bargein, conn_pc, greet_polls, stt_res, tts_res>>]_vars

\* C17 witness: the second call returned after the first one cancelled a
\* running response task and removed the session.
ClosedTwice ==
    /\ last.op = "close_again" /\ ep_pc = "exited" /\ ~in_sessions
    /\ pending_response_task # 0
    /\ tasks[pending_response_task].cancel_req = "close"

\* C18: once the session is closed neither the STT nor the TTS client is
\* connected, whenever the close happened.
ReleasedAfterClose == ~in_sessions => (~stt_connected /\ ~tts_connected)

\* C19: at most one response task whose LLM request is in progress and that
\* nobody cancelled exists at any time.
OneStreamingRequest ==
    Cardinality({r \in Requests : /\ tasks[r].gen \in {"req", "stream"}
                                  /\ tasks[r].pc \notin {"done", "cancelled"}
                                  /\ tasks[r].cancel_req = "no"}) <= 1

\* C20: after a text frame that is not valid JSON the loop is still
\* receiving and the session is still registered and active.
InvalidJsonSkipped ==
    last.op \in {"invalid_json", "error_close"}
        => (ep_pc = "open" /\ in_sessions /\ is_active)

ConnectFailed == stt_res = "fail" \/ tts_res = "fail"

\* C21: once opening STT or TTS has failed the session is never ready, its
\* STT gate is never on, no text is ever sent to TTS and the connect task
\* never enters the greeting; a stop event then deactivates the session,
\* disconnects both clients and removes the session from the map.
FailedConnectStaysConnecting ==
    /\ [](ConnectFailed
             => /\ ~is_ready /\ ~stt_enabled /\ tts_remote = <<>>
                /\ conn_pc \in {"connecting", "failed"})
    /\ [][(EpStop /\ ConnectFailed)
             => (~is_active' /\ ~in_sessions' /\ ~stt_connected' /\ ~tts_connected')]_vars

\* C21 witness: STT opened, TTS failed, the connect task gave up and a stop
\* event has torn the session down.
StoppedAfterFailedConnect ==
    /\ stt_res = "ok" /\ tts_res = "fail" /\ conn_pc = "failed"
    /\ ep_pc = "closed" /\ ~in_sessions /\ ~stt_connected /\ ~is_ready

\* C22: frames leave the outbound queue for telephony from its front, in
\* queue order, and a frame received from the synthesizer is placed behind
\* every frame received before it: a drain sends the first frames of the
\* queue and keeps the rest as they were, an arrival keeps the queued frames
\* in their order (the oldest is lost when the queue is full) and adds the
\* new frame last. So the frames sent are a subsequence of the frames
\* received, in the same order.
FramesSentInOrder ==
    [][/\ \A f \in 1..FrameTags :
              EpMedia(f)
                  => \E k \in 0..DrainBatch :
                         /\ k <= Len(tts_audio_queue)
                         /\ tts_audio_sent' = tts_audio_sent + k
                         /\ tts_audio_queue' = SubSeq(tts_audio_queue, k + 1,
                                                      Len(tts_audio_queue))
       /\ \A f \in 1..FrameTags :
              TTSFrame(f)
                  => \E k \in 0..1 :
                         tts_audio_queue' = SubSeq(tts_audio_queue, k + 1,
                                                   Len(tts_audio_queue)) \o <<f>>]_vars

\* C22 witness: frames 1 and 2 arrived in that order behind the frames queued
\* before them, and a drain that came in between sent five of the older
\* frames: what is left is the rest of the old frames, then 1, then 2.
DrainedBetweenArrivals ==
    /\ last = [op |-> "audio", arg |-> 2]
    /\ tts_audio_sent = DrainBatch
    /\ Len(tts_audio_queue) = QueueMaxLen - DrainBatch + 1
    /\ SubSeq(tts_audio_queue, Len(tts_audio_queue) - 2, Len(tts_audio_queue)) = <<0, 1, 2>>

\* C23: the barge-in handler triggered for one response cancels no other
\* response task: when it has finished, the task started since then for the
\* interrupting utterance has no cancellation requested.
InterruptingUtteranceAnswered ==
    (last.op = "barge_in_done" /\ pending_response_task # last.arg)
        => tasks[pending_response_task].cancel_req = "no"

\* C24: after close_session has returned, the connect/greeting task changes
\* no gate or flag and sends no text to TTS, and no response task sends text.
NoWorkAfterClose ==
    [][~in_sessions
          => /\ UNCHANGED <<is_ready, stt_enabled, barge_in_enabled>>
             /\ Len(tts_remote') <= Len(tts_remote)]_vars

\* C25: while the session is Connecting (not ready) or Terminated (closed and
\* removed) the outbound queue holds no frame.
QueueEmptyOutsideCall == (~is_ready \/ ~in_sessions) => tts_audio_queue = <<>>

\* C26: while a response is being spoken (after the greeting, a user turn
\* accepted, the session open) is_bot_speaking becomes false only in a step
\* that handles a Flushed marker or belongs to a barge-in (its handler, or
\* the cancellation it requested reaching the task).
SpeakingEndsByMarkerOrBargeIn ==
    [][(is_bot_speaking /\ ~is_bot_speaking' /\ nreq > 0 /\ conn_pc = "done" /\ in_sessions)
          => \/ TTSFlushed \/ STTSpeechStarted \/ BargeInResume
             \/ \E r \in Requests : CancelDeliver(r)]_vars

\* C27: the arrival wait of the greeting takes fewer than 50 polls and the
\* drain wait at most 500; _send_greeting, once started, finishes; and when
\* it finishes the STT gate and barge-in are on and the session is not
\* bot-speaking.
GreetingTerminates ==
    /\ [](/\ conn_pc = "greet_wait" => greet_polls < ArrivalPolls
          /\ conn_pc = "greet_drain" => greet_polls <= MaxPlaybackPolls)
    /\ [][(conn_pc # "done" /\ conn_pc' = "done")
             => (stt_enabled' /\ barge_in_enabled' /\ ~is_bot_speaking')]_vars
    /\ (InGreeting ~> conn_pc = "done")

\* C27 witness: the greeting finished although its audio was never drained.
GreetingDoneUndrained ==
    /\ conn_pc = "done" /\ stt_enabled /\ ~is_bot_speaking
    /\ Len(tts_audio_queue) = FramesPerText /\ tts_audio_sent = 0

\* C28: one call of drain_tts_queue removes at most 5 frames, all from the
\* front of the queue, and none when the queue is empty; tts_audio_sent grows
\* by the number of frames whose send succeeded (all those removed when no
\* send fails, all but the last one removed when a send fails).
DrainAtMostFive ==
    [][(\/ EpTimeout \/ EpMediaSendFails
        \/ \E f \in 1..FrameTags : EpMedia(f)
        \/ \E k \in 0..(DrainBatch - 1) : EpTimeoutSendFails(k))
          => \E removed \in 0..DrainBatch :
                 /\ removed <= Len(tts_audio_queue)
                 /\ tts_audio_queue' = SubSeq(tts_audio_queue, removed + 1,
                                              Len(tts_audio_queue))
                 /\ tts_audio_sent' = tts_audio_sent
                        + (IF last'.op = "drain_failed" THEN removed - 1 ELSE removed)]_vars

\* C28 witness: of the 11 greeting frames queued the first drain sent exactly
\* five and left six.
FirstDrainTookFive ==
    /\ tts_audio_sent = DrainBatch
    /\ Len(tts_audio_queue) = FramesPerText - DrainBatch
    /\ last.op # "drain_failed" /\ ep_pc = "open"

\* C29: STT receives a frame only in the step that dispatches it, with STT
\* ready and the gate on in that step, and receives it behind all frames
\* forwarded before; a frame dispatched with the gate off is kept nowhere.
ForwardedInArrivalOrder ==
    [][/\ stt_audio' # stt_audio
          => \E f \in 1..FrameTags :
                 /\ EpMedia(f) /\ is_ready /\ stt_connected /\ stt_enabled
                 /\ stt_audio' = stt_audio \o <<f>>
       /\ \A f \in 1..FrameTags :
              (EpMedia(f) /\ ~stt_enabled) => UNCHANGED <<stt_audio, audio_buffer>>]_vars

\* C29 witness: frame 2 then frame 1 were forwarded after the greeting and
\* STT holds them in that order.
TwoForwarded == stt_audio = <<2, 1>> /\ last.op = "stt_forward" /\ conn_pc = "done"

\* C30: once a user turn has started, a drain that sends frames of the
\* greeting or of an earlier response (frames not of the pending response)
\* does not count them in tts_audio_sent.
OnlyCurrentResponseCounted ==
    [][((EpTimeout \/ EpMedia(1)) /\ pending_response_task # 0
            /\ tts_audio_queue # <<>>
            /\ \A i \in 1..DrainCount(tts_audio_queue) :
                   tts_audio_queue[i] # pending_response_task)
          => UNCHANGED tts_audio_sent]_vars

RECURSIVE SpacedConcat(_)
SpacedConcat(parts) ==
    IF parts = <<>> THEN <<>>
    ELSE IF Len(parts) = 1 THEN parts[1]
    ELSE SpacedConcat(SubSeq(parts, 1, Len(parts) - 1)) \o <<Space>> \o parts[Len(parts)]

\* t is s without its leading and trailing blanks
IsTrimOf(s, t) ==
    \E i \in 1..(Len(s) + 1), j \in 0..Len(s) :
        /\ t = SubSeq(s, i, j)
        /\ \A k \in 1..(i - 1) : s[k] = Space
        /\ \A k \in (j + 1)..Len(s) : s[k] = Space
        /\ t # <<>> => (t[1] # Space /\ t[Len(t)] # Space)

TrimOf(s) == CHOOSE t \in {SubSeq(s, i, j) : i \in 1..(Len(s) + 1), j \in 0..Len(s)} :
                 IsTrimOf(s, t)

\* the step passes on the trimmed, space-joined finals when that text is not
\* empty (and passes on nothing when it is) and leaves both buffers empty
EmitsAndClears(finals) ==
    /\ transcript_parts' = <<>> /\ current_transcript' = <<>>
    /\ IF TrimOf(SpacedConcat(finals)) # <<>>
       THEN full_transcript' = TrimOf(SpacedConcat(finals)) /\ nreq' = nreq + 1
       ELSE UNCHANGED <<full_transcript, nreq>>

GreetingContextOnce ==
    messages # <<>>
        => /\ \A r \in Requests : tasks[r].ctx <=> r = messages[1].req
           /\ \A i \in 1..Len(messages) : messages[i].kind \in {"user", "full", "apology"}

RECURSIVE Concat(_)
Concat(ss) == IF ss = <<>> THEN <<>> ELSE Head(ss) \o Concat(Tail(ss))

RECURSIVE TextsOf(_)
TextsOf(remote) ==
    IF remote = <<>> THEN <<>>
    ELSE (IF Head(remote).k = "text" THEN <<Head(remote).of>> ELSE <<>>)
             \o TextsOf(Tail(remote))

\* the text sent to TTS, then the text buffered, then the text still to come
StreamedText == Concat(TextsOf(tts_remote)) \o buffer \o Concat(text_iterator)

EndsSentence(text) == text[Len(text)] \in {".", "!", "?", ":", ";"}

\* C33: with the cancel flag clear, a fragment is added to the buffer, and
\* the buffer is sent as one text and emptied exactly when the fragment ends
\* with a blank or the buffer ends with a flush character; at the end of the
\* fragments a residue is sent, followed by stream_text's flush; no step
\* loses, duplicates or reorders text (the text sent, then buffered, then
\* still to come stays the same), and when stream_text has returned nothing
\* is buffered or still to come, so the text sent is the fragments' text.
StreamedTextExact ==
    /\ []((~cancel_event /\ tasks[1].pc \in {"flush", "done"})
             => (buffer = <<>> /\ text_iterator = <<>>))
    /\ [][\A r \in Requests :
              /\ (StreamToken(r) /\ ~cancel_event)
                    => LET token == text_iterator[1]
                           buf == buffer \o token
                       IN /\ StreamedText' = StreamedText
                          /\ IF token[Len(token)] = Space \/ EndsSentence(buf)
                             THEN /\ buffer' = <<>>
                                  /\ tts_remote' =
                                         tts_remote \o <<TextItem(buf)>>
                                             \o (IF EndsSentence(buf) THEN <<FlushItem>>
                                                 ELSE <<>>)
                             ELSE buffer' = buf /\ UNCHANGED tts_remote
              /\ (StreamExhausted(r) /\ ~cancel_event)
                    => /\ StreamedText' = StreamedText
                       /\ tts_remote' =
                              IF buffer # <<>>
                              THEN tts_remote \o <<TextItem(buffer), FlushItem, FlushItem>>
                              ELSE tts_remote \o <<FlushItem>>]_vars

\* C33 witness: the fragments "a", "a " and "a" were streamed: "aa " was sent
\* at the blank, the residue "a" at the end, followed by stream_text's flush
\* and the flush of _stream_response, and the task has finished.
ResidueSentAndFlushed ==
    /\ tasks[1].pc = "done" /\ ~cancel_event
    /\ tts_remote = <<TextItem(<<"a", "a", Space>>), TextItem(<<"a">>), FlushItem, FlushItem>>

\* C34: a failing STT send does not end the endpoint loop or the session, it
\* forwards nothing and leaves STT not connected; a frame that arrives while
\* STT is not connected is not forwarded and leaves it not connected; once
\* STT of a ready session is not connected it stays so and STT receives no
\* further frame; and STT receives no frame after the session was closed.
SendAudioNeverRaises ==
    [][/\ EpMediaSendFails
             => (~stt_connected' /\ ep_pc' = "open" /\ in_sessions' /\ is_active'
                 /\ UNCHANGED stt_audio)
       /\ \A f \in 1..FrameTags :
              (EpMedia(f) /\ ~stt_connected)
                  => (~stt_connected' /\ ep_pc' = "open" /\ UNCHANGED stt_audio)
       /\ (is_ready /\ ~stt_connected) => (~stt_connected' /\ UNCHANGED stt_audio)
       /\ ~in_sessions => UNCHANGED stt_audio]_vars

\* C34 witness: frame 1 was forwarded, a later send failed, and the frame
\* that arrived after the failure was not forwarded: the loop is still
\* receiving, STT is not connected and holds frame 1 only.
FrameAfterFailedSend ==
    /\ last.op = "media_buffer" /\ ep_pc = "open" /\ in_sessions
    /\ is_ready /\ stt_enabled /\ ~stt_connected
    /\ stt_audio = <<1>> /\ audio_buffer = <<2>>

\* C35: after a send to STT or to TTS has failed, the client whose send
\* failed is marked not connected.
SendFailureDisconnects ==
    /\ last.op = "stt_send_failed" => ~stt_connected
    /\ last.op = "tts_send_failed" => ~tts_connected

\* C36: when the endpoint has exited, no session created on the connection
\* (the last one or one replaced by a later start event) is in the session
\* map or has an open STT or TTS connection.
NoSessionLeftAtExit ==
    ep_pc = "exited"
        => /\ ~in_sessions /\ ~stt_connected /\ ~tts_connected
           /\ \A i \in 1..Len(replaced) :
                  ~replaced[i].registered /\ ~replaced[i].stt /\ ~replaced[i].tts

\* C37: a Flushed marker handled before the pending response task has sent
\* its final flush (a marker of an earlier flush: of the greeting, of a
\* sentence boundary or of a previous response) leaves is_bot_speaking as it
\* was.
EarlierMarkerKeepsSpeaking ==
    [][(/\ TTSFlushed
        /\ pending_response_task # 0
        /\ tasks[pending_response_task].pc \in {"new", "next", "send", "tail_send", "tail_flush"})
          => UNCHANGED is_bot_speaking]_vars

\* the frames on_tts_audio has appended so far in a call without a user
\* turn: those of the greeting, once its audio has arrived
GreetingFramesAppended ==
    IF is_ready /\ \A i \in 1..Len(tts_remote) : tts_remote[i].k # "text"
    THEN FramesPerText ELSE 0

DrainStep ==
    \/ EpTimeout \/ EpMediaSendFails
    \/ \E f \in 1..FrameTags : EpMedia(f)
    \/ \E k \in 0..(DrainBatch - 1) : EpTimeoutSendFails(k)

\* C38: the frames sent and the frames queued never outnumber the frames the
\* TTS audio callback appended (a frame is sent only from the queue and
\* leaves it when sent); the queue grows only when the callback appends,
\* tts_audio_sent only in a drain; a drain in which the send after k sent
\* frames fails removes those k frames and the failed one, counts k, and
\* leaves every later frame queued, so the failed frame is not sent again.
FramesSentOnce ==
    /\ [](tts_audio_sent + Len(tts_audio_queue) <= GreetingFramesAppended)
    /\ [][/\ Len(tts_audio_queue') > Len(tts_audio_queue) => TTSAudio
          /\ tts_audio_sent' # tts_audio_sent => DrainStep
          /\ \A k \in 0..(DrainBatch - 1) :
                 EpTimeoutSendFails(k)
                     => /\ tts_audio_queue' = SubSeq(tts_audio_queue, k + 2,
                                                     Len(tts_audio_queue))
                        /\ tts_audio_sent' = tts_audio_sent + k]_vars

\* C38 witness: of the 11 greeting frames a drain sent two, its third send
\* failed and ended the drain: two are counted, eight are still queued.
ThirdSendFailed ==
    /\ last = [op |-> "drain_failed", arg |-> 2]
    /\ tts_audio_sent = 2 /\ Len(tts_audio_queue) = FramesPerText - 3

GreetingTexts(remote) == Cardinality({i \in 1..Len(remote) : remote[i] = TextItem(0)})

\* C39: the greeting text is sent to TTS only by the connect task on leaving
\* its connect with both STT and TTS opened, and the task never connects
\* again, so at most once; until the greeting has finished the STT gate is
\* off; from then on the STT gate and the barge-in flag are on in every
\* state.
GreetingOnceThenOpen ==
    /\ [](conn_pc # "done" => ~stt_enabled)
    /\ [](conn_pc = "done" => (stt_enabled /\ barge_in_enabled))
    /\ [][/\ GreetingTexts(tts_remote') > GreetingTexts(tts_remote)
              => /\ conn_pc = "connecting" /\ conn_pc' = "greet_wait"
                 /\ stt_res = "ok" /\ tts_res = "ok"
                 /\ GreetingTexts(tts_remote') = GreetingTexts(tts_remote) + 1
          /\ conn_pc # "connecting" => conn_pc' # "connecting"
          /\ conn_pc = "done" => conn_pc' = "done"]_vars

\* C39 witness: after the greeting a user turn was answered to the end, and
\* the STT gate and the barge-in flag are on.
OpenAfterResponse ==
    /\ conn_pc = "done" /\ tasks[1].pc = "done" /\ tasks[1].gen = "done"
    /\ stt_enabled /\ barge_in_enabled /\ ~is_bot_speaking /\ in_sessions

====
